---- MODULE Spec2Model ----
(***************************************************************************)
(* Model of switch/table-hash.c: the direct-mapped single-hash flow table  *)
(* (struct sw_table_hash), the double-hash table built from two of them    *)
(* (struct sw_table_hash2) and the iterator protocol over both.            *)
(***************************************************************************)
EXTENDS Integers, Sequences, FiniteSets, TLC

\* ------------------------------------------------------------------ bounds
MaxFlows == 3          \* flow entries the caller allocates in one behaviour
LogBuckets == 1        \* every (sub)table is created with 2^LogBuckets buckets
MaxIters == 1          \* iterators the caller creates in one behaviour
MaxCreateBuckets == 8  \* the largest n_buckets a constructor is called with

\* --------------------------------------------------------------- constants
POLY0 == 5             \* polynomial of the single table and of subtable[0]
POLY1 == 9             \* polynomial of subtable[1]

RECURSIVE Pow2(_)
Pow2(n) == IF n = 0 THEN 1 ELSE 2 * Pow2(n - 1)

N_BUCKETS == Pow2(LogBuckets)

\* C's bitwise & on non-negative integers.
RECURSIVE BitAnd(_, _)
BitAnd(x, y) ==
    IF x = 0 \/ y = 0 THEN 0
    ELSE (x % 2) * (y % 2) + 2 * BitAnd(x \div 2, y \div 2)

\* -------------------------------------------------------------------- keys
\* struct sw_flow_key: two match fields and the wildcard bitmask
\* (bit 0 wildcards field a, bit 1 wildcards field b).
ExactKeys == [wildcards : {0}, a : 0..1, b : 0..1]
WildKeys  == { [wildcards |-> 1, a |-> 0, b |-> 0],
               [wildcards |-> 3, a |-> 0, b |-> 0] }
Keys      == ExactKeys \cup WildKeys
NoKey     == [wildcards |-> 0 - 1, a |-> 0, b |-> 0]

\* struct sw_flow: a pointer to a flow is modelled by the flow's identity
\* (its allocation number) together with its key, which never changes after
\* the caller has built the flow.
NewFlow(id, key) == [id |-> id, key |-> key]
NULL == NewFlow(0, NoKey)

\* The bytes of a key, wildcards included, as one number.
KeyCode(key) == key.a + 2 * key.b + 4 * key.wildcards

\* crc32_calculate(&th->crc32, key, sizeof *key): a pure, deterministic
\* digest of the key bytes, keyed by the polynomial.  (Below 2^32 for every
\* key code of the model.)
crc32_calculate(crc32, key) == (crc32 * (KeyCode(key) + 1)) \div 4

\* flow_del_matches(&flow->key, key, strict): a strict delete needs equal
\* wildcard masks; otherwise every field the query does not wildcard must
\* be equal.
flow_del_matches(t, d, strict) ==
    /\ (strict # 0) => d.wildcards = t.wildcards
    /\ (BitAnd(d.wildcards, 1) = 0 /\ BitAnd(t.wildcards, 1) = 0) => t.a = d.a
    /\ (BitAnd(d.wildcards, 2) = 0 /\ BitAnd(t.wildcards, 2) = 0) => t.b = d.b

\* ------------------------------------------------------------------ events
\* What an operation does to the world outside the bucket array, in order:
\* flow_free(flow) and dp_send_flow_expired(dp, flow).
Free(f, t)   == [ev |-> "free",   flow |-> f, tab |-> t]
Notify(f, t) == [ev |-> "notify", flow |-> f, tab |-> t]

\* --------------------------------------------------------- single-hash table
\* unsigned int values are held as residues modulo 2^32, so that 0 - 1
\* stands for 0xFFFFFFFF; ++ and -= are then + and - (no count of the model
\* comes near 2^31, where the residues would have to wrap).
UINT_MAX == 0 - 1

\* What a field that malloc'ed memory never had written can hold: any
\* unsigned int; 0 and 0xFFFFFFFF stand for them all.
UNINIT_UINT == { 0, UINT_MAX }

\* struct sw_table_hash, as table_hash_create leaves it: buckets is
\* calloc'ed, bucket_mask and crc32 are set, and n_flows is never written,
\* so it holds whatever the malloc'ed block held (n_flows).
NewTable(polynomial, n_buckets, n_flows) ==
    [crc32 |-> polynomial, n_flows |-> n_flows,
     bucket_mask |-> n_buckets - 1,
     buckets |-> [i \in 0..(n_buckets - 1) |-> NULL]]

find_bucket(th, key) == BitAnd(crc32_calculate(th.crc32, key), th.bucket_mask)

\* memcmp(&x->key, key, sizeof *key) == 0
SameKey(flow, key) == flow.key = key

table_hash_lookup(th, key) ==
    LET flow == th.buckets[find_bucket(th, key)]
    IN  IF flow # NULL /\ SameKey(flow, key) THEN flow ELSE NULL

\* A table_hash_insert that reports a replacement as a failure.
table_hash_insert_replace0(th, flow, t) ==
    IF flow.key.wildcards # 0
    THEN [th |-> th, retval |-> 0, events |-> << >>, branch |-> "wild"]
    ELSE LET b == find_bucket(th, flow.key)
             old_flow == th.buckets[b]
         IN  IF old_flow = NULL
             THEN [th |-> [th EXCEPT !.n_flows = @ + 1, !.buckets[b] = flow],
                   retval |-> 1, events |-> << >>, branch |-> "new"]
             ELSE IF SameKey(old_flow, flow.key)
                  THEN [th |-> [th EXCEPT !.buckets[b] = flow],
                        retval |-> 0, events |-> << Free(old_flow, t) >>,
                        branch |-> "replace"]
                  ELSE [th |-> th, retval |-> 0, events |-> << >>,
                        branch |-> "foreign"]

\* A table_hash_insert that replaces an entry without freeing it.
table_hash_insert_leak(th, flow, t) ==
    IF flow.key.wildcards # 0
    THEN [th |-> th, retval |-> 0, events |-> << >>, branch |-> "wild"]
    ELSE LET b == find_bucket(th, flow.key)
             old_flow == th.buckets[b]
         IN  IF old_flow = NULL
             THEN [th |-> [th EXCEPT !.n_flows = @ + 1, !.buckets[b] = flow],
                   retval |-> 1, events |-> << >>, branch |-> "new"]
             ELSE IF SameKey(old_flow, flow.key)
                  THEN [th |-> [th EXCEPT !.buckets[b] = flow],
                        retval |-> 1, events |-> << >>, branch |-> "replace"]
                  ELSE [th |-> th, retval |-> 0, events |-> << >>,
                        branch |-> "foreign"]

\* A table_hash_insert that evicts a foreign entry instead of rejecting.
table_hash_insert_evict(th, flow, t) ==
    IF flow.key.wildcards # 0
    THEN [th |-> th, retval |-> 0, events |-> << >>, branch |-> "wild"]
    ELSE LET b == find_bucket(th, flow.key)
             old_flow == th.buckets[b]
         IN  IF old_flow = NULL
             THEN [th |-> [th EXCEPT !.n_flows = @ + 1, !.buckets[b] = flow],
                   retval |-> 1, events |-> << >>, branch |-> "new"]
             ELSE [th |-> [th EXCEPT !.buckets[b] = flow],
                   retval |-> 1, events |-> << Free(old_flow, t) >>,
                   branch |-> IF SameKey(old_flow, flow.key)
                              THEN "replace" ELSE "foreign"]

\* table_hash_insert(swt, flow); t is the index of the table in `tables`.
table_hash_insert(th, flow, t) ==
    IF flow.key.wildcards # 0
    THEN [th |-> th, retval |-> 0, events |-> << >>, branch |-> "wild"]
    ELSE LET b == find_bucket(th, flow.key)
             old_flow == th.buckets[b]
         IN  IF old_flow = NULL
             THEN [th |-> [th EXCEPT !.n_flows = @ + 1, !.buckets[b] = flow],
                   retval |-> 1, events |-> << >>, branch |-> "new"]
             ELSE IF SameKey(old_flow, flow.key)
                  THEN [th |-> [th EXCEPT !.buckets[b] = flow],
                        retval |-> 1, events |-> << Free(old_flow, t) >>,
                        branch |-> "replace"]
                  ELSE [th |-> th, retval |-> 0, events |-> << >>,
                        branch |-> "foreign"]

\* do_delete(bucket): frees the entry and clears the bucket; the caller
\* updates n_flows.
do_delete(th, i, t) ==
    [th |-> [th EXCEPT !.buckets[i] = NULL],
     events |-> << Free(th.buckets[i], t) >>]

\* The loop of table_hash_delete's wildcard branch, from bucket i on.
RECURSIVE delete_scan(_, _, _, _, _)
delete_scan(th, key, strict, t, i) ==
    IF i > th.bucket_mask
    THEN [th |-> th, count |-> 0, events |-> << >>]
    ELSE LET flow == th.buckets[i]
         IN  IF flow # NULL /\ flow_del_matches(flow.key, key, strict)
             THEN LET d == do_delete(th, i, t)
                      r == delete_scan(d.th, key, strict, t, i + 1)
                  IN  [th |-> r.th, count |-> r.count + 1,
                       events |-> d.events \o r.events]
             ELSE delete_scan(th, key, strict, t, i + 1)

\* table_hash_delete(swt, key, strict): returns the number of deleted flows.
table_hash_delete(th, key, strict, t) ==
    LET r == IF key.wildcards = 0
             THEN LET b == find_bucket(th, key)
                      flow == th.buckets[b]
                  IN  IF flow # NULL /\ SameKey(flow, key)
                      THEN LET d == do_delete(th, b, t)
                           IN  [th |-> d.th, count |-> 1, events |-> d.events]
                      ELSE [th |-> th, count |-> 0, events |-> << >>]
             ELSE delete_scan(th, key, strict, t, 0)
    IN  [th |-> [r.th EXCEPT !.n_flows = @ - r.count],
         retval |-> r.count, events |-> r.events]

\* A timeout loop that frees the entry before it reports it expired.
RECURSIVE timeout_scan_free_first(_, _, _, _)
timeout_scan_free_first(th, E, t, i) ==
    IF i > th.bucket_mask
    THEN [th |-> th, count |-> 0, events |-> << >>]
    ELSE LET flow == th.buckets[i]
         IN  IF flow # NULL /\ flow \in E
             THEN LET d == do_delete(th, i, t)
                      r == timeout_scan_free_first(d.th, E, t, i + 1)
                  IN  [th |-> r.th, count |-> r.count + 1,
                       events |-> d.events \o << Notify(flow, t) >> \o r.events]
             ELSE timeout_scan_free_first(th, E, t, i + 1)

\* The loop of table_hash_timeout from bucket i on; E is the set of flows
\* for which flow_timeout(flow) is true during this call.
RECURSIVE timeout_scan(_, _, _, _)
timeout_scan(th, E, t, i) ==
    IF i > th.bucket_mask
    THEN [th |-> th, count |-> 0, events |-> << >>]
    ELSE LET flow == th.buckets[i]
         IN  IF flow # NULL /\ flow \in E
             THEN LET d == do_delete(th, i, t)
                      r == timeout_scan(d.th, E, t, i + 1)
                  IN  [th |-> r.th, count |-> r.count + 1,
                       events |-> << Notify(flow, t) >> \o d.events \o r.events]
             ELSE timeout_scan(th, E, t, i + 1)

\* table_hash_timeout(dp, swt)
table_hash_timeout(th, E, t) ==
    LET r == timeout_scan(th, E, t, 0)
    IN  [th |-> [r.th EXCEPT !.n_flows = @ - r.count],
         retval |-> r.count, events |-> r.events]

\* table_hash_stats(swt, stats)
table_hash_stats(th) ==
    [name |-> "hash", n_flows |-> th.n_flows, max_flows |-> th.bucket_mask + 1]

\* -------------------------------------------------------- double-hash table
\* struct sw_table_hash2: t2[1] is subtable[0], t2[2] is subtable[1].

\* table_hash2_stats(swt, stats): the sums are sums of unsigned ints.
table_hash2_stats(t2) ==
    [name |-> "hash2",
     n_flows |-> table_hash_stats(t2[1]).n_flows
                     + table_hash_stats(t2[2]).n_flows,
     max_flows |-> table_hash_stats(t2[1]).max_flows
                       + table_hash_stats(t2[2]).max_flows]

table_hash2_lookup(t2, key) ==
    LET f0 == table_hash_lookup(t2[1], key)
    IN  IF f0 # NULL THEN f0 ELSE table_hash_lookup(t2[2], key)

\* A table_hash2_insert that tries subtable[1] before subtable[0].
table_hash2_insert_sub1first(t2, flow) ==
    LET r0 == table_hash_insert(t2[1], flow, 1)
        r1 == table_hash_insert(t2[2], flow, 2)
    IN  IF r1.retval # 0
        THEN [tables |-> << t2[1], r1.th >>, retval |-> 1,
              events |-> r1.events, branch |-> r1.branch,
              tried |-> << r1.branch >>]
        ELSE [tables |-> << r0.th, r1.th >>, retval |-> r0.retval,
              events |-> r1.events \o r0.events, branch |-> r0.branch,
              tried |-> << r1.branch, r0.branch >>]

\* A table_hash2_insert that gives up when subtable[0] rejects.
table_hash2_insert_nofallback(t2, flow) ==
    LET r0 == table_hash_insert(t2[1], flow, 1)
    IN  [tables |-> << r0.th, t2[2] >>, retval |-> r0.retval,
         events |-> r0.events, branch |-> r0.branch,
         tried |-> << r0.branch >>]

table_hash2_insert(t2, flow) ==
    LET r0 == table_hash_insert(t2[1], flow, 1)
        r1 == table_hash_insert(t2[2], flow, 2)
    IN  IF r0.retval # 0
        THEN [tables |-> << r0.th, t2[2] >>, retval |-> 1,
              events |-> r0.events, branch |-> r0.branch,
              tried |-> << r0.branch >>]
        ELSE [tables |-> << r0.th, r1.th >>, retval |-> r1.retval,
              events |-> r0.events \o r1.events, branch |-> r1.branch,
              tried |-> << r0.branch, r1.branch >>]

\* The two operands of + are evaluated in either order: first = 1 runs
\* subtable[0] first, first = 2 runs subtable[1] first.
JoinEvents(first, e0, e1) == IF first = 1 THEN e0 \o e1 ELSE e1 \o e0

table_hash2_delete(t2, key, strict, first) ==
    LET r0 == table_hash_delete(t2[1], key, strict, 1)
        r1 == table_hash_delete(t2[2], key, strict, 2)
    IN  [tables |-> << r0.th, r1.th >>, retval |-> r0.retval + r1.retval,
         events |-> JoinEvents(first, r0.events, r1.events)]

table_hash2_timeout(t2, E, first) ==
    LET r0 == table_hash_timeout(t2[1], E, 1)
        r1 == table_hash_timeout(t2[2], E, 2)
    IN  [tables |-> << r0.th, r1.th >>, retval |-> r0.retval + r1.retval,
         events |-> JoinEvents(first, r0.events, r1.events)]

\* The loop of table_hash_destroy from bucket i on.
RECURSIVE destroy_scan(_, _, _)
destroy_scan(th, t, i) ==
    IF i > th.bucket_mask THEN << >>
    ELSE IF th.buckets[i] # NULL
         THEN << Free(th.buckets[i], t) >> \o destroy_scan(th, t, i + 1)
         ELSE destroy_scan(th, t, i + 1)

table_hash_destroy(th, t) == destroy_scan(th, t, 0)

table_hash2_destroy(t2) ==
    table_hash_destroy(t2[1], 1) \o table_hash_destroy(t2[2], 2)

\* ------------------------------------------------------------ construction
\* A block malloc or calloc has returned: what it is, the (sub)table it
\* belongs to (0: the sw_table_hash2 itself) and how often it was freed.
Block(what, t, freed) == [what |-> what, tab |-> t, freed |-> freed]

\* free(th->buckets); free(th); at the end of table_hash_destroy.
destroy_blocks(blocks) ==
    [i \in DOMAIN blocks |-> [blocks[i] EXCEPT !.freed = @ + 1]]

\* What malloc and calloc do during a table_hash_create: whether each
\* returns a block, and what the malloc'ed block holds where n_flows is.
\* (calloc(0, size) may return a null pointer or a block: both are here.)
Mallocs == [th : BOOLEAN, buckets : BOOLEAN, n_flows : UNINIT_UINT]

\* malloc and calloc never fail.
MallocsOk(n_flows) == [th |-> TRUE, buckets |-> TRUE, n_flows |-> n_flows]

\* table_hash_create(polynomial, n_buckets) as subtable t: the result
\* ("table", "null" for a NULL return, "abort" when the assertion fails),
\* the table and the blocks allocated.  n_buckets - 1 is computed in
\* unsigned arithmetic: for n_buckets = 0 it is UINT_MAX.
table_hash_create(polynomial, n_buckets, m, t) ==
    IF ~m.th
    THEN [result |-> "null", tables |-> << >>, blocks |-> << >>]
    ELSE IF BitAnd(n_buckets, n_buckets - 1) # 0
    THEN [result |-> "abort", tables |-> << >>,
          blocks |-> << Block("th", t, 0) >>]
    ELSE IF ~m.buckets
    THEN [result |-> "null", tables |-> << >>,
          blocks |-> << Block("th", t, 1) >>]
    ELSE [result |-> "table",
          tables |-> << NewTable(polynomial, n_buckets, m.n_flows) >>,
          blocks |-> << Block("th", t, 0), Block("buckets", t, 0) >>]

\* A table_hash2_create that forgets subtable[0] when subtable[1] fails.
table_hash2_create_leak(poly0, buckets0, poly1, buckets1, m) ==
    IF ~m.t2
    THEN [result |-> "null", tables |-> << >>, blocks |-> << >>]
    ELSE LET s0 == table_hash_create(poly0, buckets0, m.sub[1], 1)
             s1 == table_hash_create(poly1, buckets1, m.sub[2], 2)
         IN  IF s0.result # "table"
             THEN [result |-> s0.result, tables |-> << >>,
                   blocks |-> << Block("t2", 0, IF s0.result = "null"
                                                THEN 1 ELSE 0) >>
                                  \o s0.blocks]
             ELSE IF s1.result = "abort"
             THEN [result |-> "abort", tables |-> << >>,
                   blocks |-> << Block("t2", 0, 0) >>
                                  \o s0.blocks \o s1.blocks]
             ELSE IF s1.result = "null"
             THEN [result |-> "null", tables |-> << >>,
                   blocks |-> << Block("t2", 0, 1) >>
                                  \o s0.blocks \o s1.blocks]
             ELSE [result |-> "table", tables |-> s0.tables \o s1.tables,
                   blocks |-> << Block("t2", 0, 0) >>
                                  \o s0.blocks \o s1.blocks]

\* table_hash2_create(poly0, buckets0, poly1, buckets1); m.t2 is whether
\* malloc returns the sw_table_hash2, m.sub what the allocator does in the
\* two table_hash_create calls.  When subtable[1] fails, subtable[0] (it is
\* empty) is destroyed and t2 freed.
table_hash2_create(poly0, buckets0, poly1, buckets1, m) ==
    IF ~m.t2
    THEN [result |-> "null", tables |-> << >>, blocks |-> << >>]
    ELSE LET s0 == table_hash_create(poly0, buckets0, m.sub[1], 1)
             s1 == table_hash_create(poly1, buckets1, m.sub[2], 2)
         IN  IF s0.result # "table"
             THEN [result |-> s0.result, tables |-> << >>,
                   blocks |-> << Block("t2", 0, IF s0.result = "null"
                                                THEN 1 ELSE 0) >>
                                  \o s0.blocks]
             ELSE IF s1.result = "abort"
             THEN [result |-> "abort", tables |-> << >>,
                   blocks |-> << Block("t2", 0, 0) >>
                                  \o s0.blocks \o s1.blocks]
             ELSE IF s1.result = "null"
             THEN [result |-> "null", tables |-> << >>,
                   blocks |-> << Block("t2", 0, 1) >>
                                  \o destroy_blocks(s0.blocks) \o s1.blocks]
             ELSE [result |-> "table", tables |-> s0.tables \o s1.tables,
                   blocks |-> << Block("t2", 0, 0) >>
                                  \o s0.blocks \o s1.blocks]

\* ---------------------------------------------------------------- iterator
\* struct swt_iterator_hash: the table it walks (an index into `tables`)
\* and the bucket it stands on.  freed counts the free() calls on the block.
NewIh(t) == [th |-> t, bucket_i |-> 0, freed |-> 0]

\* An indeterminate flow pointer (a field nobody has written yet).
GARBAGE == NewFlow(0 - 1, NoKey)

\* next_flow(ih): scans forward from ih->bucket_i, leaving bucket_i on the
\* bucket of the flow it returns, or past the last bucket.
RECURSIVE next_flow(_, _)
next_flow(ih, tabs) ==
    IF ih.bucket_i <= tabs[ih.th].bucket_mask
    THEN LET f == tabs[ih.th].buckets[ih.bucket_i]
         IN  IF f # NULL THEN [ih |-> ih, flow |-> f]
             ELSE next_flow([ih EXCEPT !.bucket_i = @ + 1], tabs)
    ELSE [ih |-> ih, flow |-> NULL]

\* table_hash_iterator(swt, swt_iter) when malloc succeeds: the new block
\* and the flow the iterator exposes.
table_hash_iterator(t, tabs) == next_flow(NewIh(t), tabs)

\* A table_hash_next that forgets ih->bucket_i++.
table_hash_next_stay(ih, flow, tabs) ==
    IF flow = NULL THEN [ih |-> ih, flow |-> flow]
    ELSE next_flow(ih, tabs)

\* table_hash_next(swt_iter) on the block ih of an iterator exposing flow.
table_hash_next(ih, flow, tabs) ==
    IF flow = NULL THEN [ih |-> ih, flow |-> flow]
    ELSE next_flow([ih EXCEPT !.bucket_i = @ + 1], tabs)

\* struct swt_iterator_hash2 as malloc returns it: th2 is set at once, and
\* ih (a struct swt_iterator: private, flow) and table_i hold what the
\* block held until they are written; no path reads them before.
NewIh2 ==
    [th2 |-> 0, ih |-> [private |-> 0 - 1, flow |-> GARBAGE],
     table_i |-> 0 - 1, freed |-> 0]

\* free(p) on block p of the heap hp.
FreeBlock(hp, p) == [hp EXCEPT ![p].freed = @ + 1]

\* table_hash2_iterator(swt, swt_iter) on the caller's swt_iter si, with
\* heap hp; m[1], m[2], m[3] tell whether malloc returns a block for ih2,
\* for the iterator of subtable[0] and for the iterator of subtable[1].
\* A failing table_hash_iterator sets ih.private to NULL and leaves ih.flow
\* alone; a failing table_hash2_iterator leaves swt_iter->private pointing
\* to whatever ih2 was.
table_hash2_iterator(si, hp, tabs, m) ==
    LET p2 == Len(hp) + 1
        r0 == table_hash_iterator(1, tabs)
        r1 == table_hash_iterator(2, tabs)
    IN  IF ~m[1]
        THEN [heap |-> hp, swt_iter |-> [si EXCEPT !.private = 0],
              retval |-> 0]
        ELSE IF ~m[2]
        THEN [heap |-> Append(hp, [NewIh2 EXCEPT !.ih.private = 0,
                                                  !.freed = 1]),
              swt_iter |-> [si EXCEPT !.private = p2], retval |-> 0]
        ELSE IF r0.flow # NULL
        THEN [heap |-> hp \o << [NewIh2 EXCEPT
                                    !.ih = [private |-> p2 + 1,
                                            flow |-> r0.flow],
                                    !.table_i = 0],
                                r0.ih >>,
              swt_iter |-> [private |-> p2, flow |-> r0.flow], retval |-> 1]
        ELSE IF ~m[3]
        THEN [heap |-> hp \o << [NewIh2 EXCEPT
                                    !.ih = [private |-> 0, flow |-> NULL],
                                    !.table_i = 1, !.freed = 1],
                                [r0.ih EXCEPT !.freed = 1] >>,
              swt_iter |-> [si EXCEPT !.private = p2], retval |-> 0]
        ELSE [heap |-> hp \o << [NewIh2 EXCEPT
                                    !.ih = [private |-> p2 + 2,
                                            flow |-> r1.flow],
                                    !.table_i = 1],
                                [r0.ih EXCEPT !.freed = 1],
                                r1.ih >>,
              swt_iter |-> [private |-> p2, flow |-> r1.flow], retval |-> 1]

\* A table_hash2_next that does not destroy the iterator of subtable[0]
\* when it moves on to subtable[1].
table_hash2_next_keep0(si, hp, tabs, ok) ==
    IF si.flow = NULL THEN [heap |-> hp, swt_iter |-> si]
    ELSE LET p2 == si.private
             ih2 == hp[p2]
             p == ih2.ih.private
             r == table_hash_next(hp[p], ih2.ih.flow, tabs)
             hp1 == [hp EXCEPT ![p] = r.ih, ![p2].ih.flow = r.flow]
             r1 == table_hash_iterator(2, tabs)
         IN  IF r.flow # NULL
             THEN [heap |-> hp1, swt_iter |-> [si EXCEPT !.flow = r.flow]]
             ELSE IF ih2.table_i = 0
             THEN IF ~ok
                  THEN [heap |-> [hp1 EXCEPT ![p2].table_i = 1,
                                             ![p2].ih.private = 0],
                        swt_iter |-> [si EXCEPT !.flow = NULL]]
                  ELSE [heap |-> Append(
                                     [hp1 EXCEPT
                                         ![p2].table_i = 1,
                                         ![p2].ih = [private |-> Len(hp) + 1,
                                                     flow |-> r1.flow]],
                                     r1.ih),
                        swt_iter |-> [si EXCEPT !.flow = r1.flow]]
             ELSE [heap |-> hp1, swt_iter |-> [si EXCEPT !.flow = NULL]]

\* table_hash2_next(swt_iter); ok tells whether malloc returns a block
\* should the iterator of subtable[1] have to be made.
table_hash2_next(si, hp, tabs, ok) ==
    IF si.flow = NULL THEN [heap |-> hp, swt_iter |-> si]
    ELSE LET p2 == si.private
             ih2 == hp[p2]
             p == ih2.ih.private
             r == table_hash_next(hp[p], ih2.ih.flow, tabs)
             hp1 == [hp EXCEPT ![p] = r.ih, ![p2].ih.flow = r.flow]
             r1 == table_hash_iterator(2, tabs)
         IN  IF r.flow # NULL
             THEN [heap |-> hp1, swt_iter |-> [si EXCEPT !.flow = r.flow]]
             ELSE IF ih2.table_i = 0
             THEN IF ~ok
                  THEN [heap |-> [FreeBlock(hp1, p) EXCEPT
                                     ![p2].table_i = 1,
                                     ![p2].ih.private = 0],
                        swt_iter |-> [si EXCEPT !.flow = NULL]]
                  ELSE [heap |-> Append(
                                     [FreeBlock(hp1, p) EXCEPT
                                         ![p2].table_i = 1,
                                         ![p2].ih = [private |-> Len(hp) + 1,
                                                     flow |-> r1.flow]],
                                     r1.ih),
                        swt_iter |-> [si EXCEPT !.flow = r1.flow]]
             ELSE [heap |-> hp1, swt_iter |-> [si EXCEPT !.flow = NULL]]

\* table_hash2_iterator_destroy(swt_iter) on an iterator that
\* table_hash2_iterator has made.
table_hash2_iterator_destroy(si, hp) ==
    LET ih2 == hp[si.private]
    IN  FreeBlock(IF ih2.ih.private # 0
                  THEN FreeBlock(hp, ih2.ih.private) ELSE hp,
                  si.private)

\* ------------------------------------------------------------------- state
VARIABLES
    kind,      \* "hash" or "hash2": whose functions the sw_table points to
    alive,     \* FALSE once destroy has run, or the program has run into
               \* undefined behaviour and is followed no further
    tables,    \* the sw_table_hash structures: one, or subtable[0..1]
    n_alloc,   \* how many flows the caller has allocated so far
    nfree,     \* nfree[id]: how many times flow_free() was called on flow id
    last,      \* the last call: its arguments, result and events
    accepted,  \* accepted[k]: the last accepted entry with key k that has
               \* not been deleted or expired since, or NULL
    owned,     \* the ids of the flows an insert has accepted: from then on
               \* the table owns them
    ctor,      \* the constructor call: its result and the blocks it got
               \* from malloc and calloc
    heap,      \* the iterator blocks malloc has returned, in order
    swt_iter,  \* the caller's struct swt_iterator: private (a block, 0 is
               \* the null pointer) and flow
    interleave,\* whether the caller changes the table while an iterator is
               \* live (it must not: the iterators are not built for it)
    iter       \* the caller's position in the iterator protocol, what the
               \* iterator has exposed so far, and whether the table was
               \* changed since the iterator was created

tabvars == << kind, alive, tables, n_alloc, nfree, accepted, owned, ctor,
             interleave >>
itervars == << heap, swt_iter >>
vars == << kind, alive, tables, n_alloc, nfree, last, accepted, owned, ctor,
           heap, swt_iter, interleave, iter >>

FlowIds == 1..MaxFlows

\* The keys the caller inserts and looks up: every exact key, one wildcarded.
ProbeKeys == ExactKeys \cup { [wildcards |-> 1, a |-> 0, b |-> 0] }

\* The (key, strict) pairs the caller deletes with.
DeleteArgs ==
    { << k, 0 >> : k \in Keys }
        \cup { << [wildcards |-> 0, a |-> 1, b |-> 0], 1 >>,
               << [wildcards |-> 1, a |-> 0, b |-> 0], 1 >> }

\* The record of a call: op, and the fields the call fills in.
Call(op) ==
    [op |-> op, key |-> NoKey, strict |-> 0, flow |-> NULL, ret |-> 0,
     branch |-> "", tried |-> << >>, events |-> << >>, expired |-> {}]

\* nfree after the flow_free calls among the events.
RECURSIVE ApplyFrees(_, _)
ApplyFrees(nf, events) ==
    IF events = << >> THEN nf
    ELSE LET e == Head(events)
         IN  ApplyFrees(IF e.ev = "free"
                        THEN [nf EXCEPT ![e.flow.id] = @ + 1] ELSE nf,
                        Tail(events))

\* The entries a table holds.
Stored(th) == { th.buckets[i] : i \in DOMAIN th.buckets } \ { NULL }
StoredAll == UNION { Stored(tables[t]) : t \in DOMAIN tables }

\* What a constructor call leaves in ctor.
Ctor(op, args, c) ==
    [op |-> op, args |-> args, result |-> c.result, blocks |-> c.blocks]

\* The caller has nothing yet: no flow, no call, no iterator.
InitCaller ==
    /\ n_alloc = 0
    /\ nfree = [f \in FlowIds |-> 0]
    /\ last = Call("create")
    /\ accepted = [k \in ExactKeys |-> NULL]
    /\ owned = {}
    /\ heap = << >>
    /\ swt_iter = [private |-> 0, flow |-> GARBAGE]
    /\ iter = [status |-> "none", yielded |-> << >>, dirty |-> FALSE, n |-> 0]

\* The table as a constructor call that succeeded has left it.
InitTable ==
    /\ kind \in { "hash", "hash2" }
    /\ alive = TRUE
    /\ \E g0, g1 \in UNINIT_UINT :
           LET c == IF kind = "hash"
                    THEN table_hash_create(POLY0, N_BUCKETS, MallocsOk(g0), 1)
                    ELSE table_hash2_create(
                             POLY0, N_BUCKETS, POLY1, N_BUCKETS,
                             [t2 |-> TRUE,
                              sub |-> << MallocsOk(g0), MallocsOk(g1) >>])
           IN  /\ tables = c.tables
               /\ ctor = Ctor(IF kind = "hash" THEN "table_hash_create"
                              ELSE "table_hash2_create",
                              IF kind = "hash" THEN << N_BUCKETS >>
                              ELSE << N_BUCKETS, N_BUCKETS >>, c)
    /\ InitCaller

Init == InitTable /\ interleave = FALSE

\* Whether the caller changes the table now: it fills and changes the table
\* before it makes an iterator and, when it interleaves, while the
\* iterator is live.
MayChange ==
    alive /\ (iter.status = "none" \/ (interleave /\ iter.status = "live"))

\* The caller destroys a table no live iterator walks.
MayDestroy == alive /\ iter.status # "live"

\* The iterator's bookkeeping after a call that turns tables into tabs:
\* what the iterator has exposed is kept only while the table is unchanged.
Touch(tabs) ==
    /\ LET d == iter.dirty \/ (iter.status = "live" /\ tabs # tables)
       IN  iter' = [iter EXCEPT !.dirty = d,
                                !.yielded = IF d THEN << >> ELSE @]
    /\ UNCHANGED << itervars, interleave >>

\* accepted after an insert of flow returned ret.
AcceptedAfterInsert(flow, ret) ==
    IF ret # 0 THEN [accepted EXCEPT ![flow.key] = flow] ELSE accepted

\* owned after an insert of flow returned ret.
OwnedAfterInsert(flow, ret) ==
    IF ret # 0 THEN owned \cup { flow.id } ELSE owned

\* accepted after delete(key, strict) / after the flows in E have expired.
AcceptedAfterDelete(key, strict) ==
    [k \in ExactKeys |->
        IF (key.wildcards = 0 /\ k = key)
           \/ (key.wildcards # 0 /\ flow_del_matches(k, key, strict))
        THEN NULL ELSE accepted[k]]
AcceptedAfterTimeout(E) ==
    [k \in ExactKeys |-> IF accepted[k] \in E THEN NULL ELSE accepted[k]]

\* ----------------------------------------------------------------- actions
\* The caller allocates a flow with key k and calls swt->insert on it.
Hash_Insert(k) ==
    /\ kind = "hash" /\ MayChange /\ n_alloc < MaxFlows
    /\ LET flow == NewFlow(n_alloc + 1, k)
           r == table_hash_insert(tables[1], flow, 1)
       IN  /\ tables' = << r.th >>
           /\ Touch(<< r.th >>)
           /\ nfree' = ApplyFrees(nfree, r.events)
           /\ last' = [Call("insert") EXCEPT
                           !.key = k, !.flow = flow, !.ret = r.retval,
                           !.branch = r.branch, !.tried = << r.branch >>,
                           !.events = r.events]
           /\ accepted' = AcceptedAfterInsert(flow, r.retval)
           /\ owned' = OwnedAfterInsert(flow, r.retval)
    /\ n_alloc' = n_alloc + 1
    /\ UNCHANGED << kind, alive, ctor >>

Hash2_Insert(k) ==
    /\ kind = "hash2" /\ MayChange /\ n_alloc < MaxFlows
    /\ LET flow == NewFlow(n_alloc + 1, k)
           r == table_hash2_insert(tables, flow)
       IN  /\ tables' = r.tables
           /\ Touch(r.tables)
           /\ nfree' = ApplyFrees(nfree, r.events)
           /\ last' = [Call("insert") EXCEPT
                           !.key = k, !.flow = flow, !.ret = r.retval,
                           !.branch = r.branch, !.tried = r.tried,
                           !.events = r.events]
           /\ accepted' = AcceptedAfterInsert(flow, r.retval)
           /\ owned' = OwnedAfterInsert(flow, r.retval)
    /\ n_alloc' = n_alloc + 1
    /\ UNCHANGED << kind, alive, ctor >>

\* lookup changes nothing; what it returns is table_hash_lookup of the state.
Hash_Lookup(k) ==
    /\ kind = "hash" /\ alive
    /\ last' = Call("lookup")
    /\ UNCHANGED << tabvars, itervars, iter >>

Hash2_Lookup(k) ==
    /\ kind = "hash2" /\ alive
    /\ last' = Call("lookup")
    /\ UNCHANGED << tabvars, itervars, iter >>

Hash_Delete(k, strict) ==
    /\ kind = "hash" /\ MayChange
    /\ LET r == table_hash_delete(tables[1], k, strict, 1)
       IN  /\ tables' = << r.th >>
           /\ Touch(<< r.th >>)
           /\ nfree' = ApplyFrees(nfree, r.events)
           /\ last' = [Call("delete") EXCEPT
                           !.key = k, !.strict = strict, !.ret = r.retval,
                           !.events = r.events]
    /\ accepted' = AcceptedAfterDelete(k, strict)
    /\ UNCHANGED << kind, alive, n_alloc, owned, ctor >>

\* first matters only when both subtables act.
Hash2_Delete(k, strict, first) ==
    /\ kind = "hash2" /\ MayChange
    /\ LET r == table_hash2_delete(tables, k, strict, first)
       IN  /\ first = 2 =>
                  r.events # table_hash2_delete(tables, k, strict, 1).events
           /\ tables' = r.tables
           /\ Touch(r.tables)
           /\ Touch(r.tables)
           /\ nfree' = ApplyFrees(nfree, r.events)
           /\ last' = [Call("delete") EXCEPT
                           !.key = k, !.strict = strict, !.ret = r.retval,
                           !.events = r.events]
    /\ accepted' = AcceptedAfterDelete(k, strict)
    /\ UNCHANGED << kind, alive, n_alloc, owned, ctor >>

\* E: the stored flows whose flow_timeout() is true at the time of the call.
Hash_Timeout(E) ==
    /\ kind = "hash" /\ MayChange
    /\ LET r == table_hash_timeout(tables[1], E, 1)
       IN  /\ tables' = << r.th >>
           /\ Touch(<< r.th >>)
           /\ nfree' = ApplyFrees(nfree, r.events)
           /\ last' = [Call("timeout") EXCEPT
                           !.ret = r.retval, !.events = r.events,
                                 !.expired = E]
    /\ accepted' = AcceptedAfterTimeout(E)
    /\ UNCHANGED << kind, alive, n_alloc, owned, ctor >>

Hash2_Timeout(E, first) ==
    /\ kind = "hash2" /\ MayChange
    /\ LET r == table_hash2_timeout(tables, E, first)
       IN  /\ first = 2 => r.events # table_hash2_timeout(tables, E, 1).events
           /\ tables' = r.tables
           /\ Touch(r.tables)
           /\ Touch(r.tables)
           /\ nfree' = ApplyFrees(nfree, r.events)
           /\ last' = [Call("timeout") EXCEPT
                           !.ret = r.retval, !.events = r.events,
                                 !.expired = E]
    /\ accepted' = AcceptedAfterTimeout(E)
    /\ UNCHANGED << kind, alive, n_alloc, owned, ctor >>

Hash_Destroy ==
    /\ kind = "hash" /\ MayDestroy
    /\ LET events == table_hash_destroy(tables[1], 1)
       IN  /\ nfree' = ApplyFrees(nfree, events)
           /\ last' = [Call("destroy") EXCEPT !.events = events]
    /\ alive' = FALSE
    /\ ctor' = [ctor EXCEPT !.blocks = destroy_blocks(@)]
    /\ UNCHANGED << kind, tables, n_alloc, accepted, owned, itervars,
                    interleave, iter >>

Hash2_Destroy ==
    /\ kind = "hash2" /\ MayDestroy
    /\ LET events == table_hash2_destroy(tables)
       IN  /\ nfree' = ApplyFrees(nfree, events)
           /\ last' = [Call("destroy") EXCEPT !.events = events]
    /\ alive' = FALSE
    /\ ctor' = [ctor EXCEPT !.blocks = destroy_blocks(@)]
    /\ UNCHANGED << kind, tables, n_alloc, accepted, owned, itervars,
                    interleave, iter >>

\* ok: whether malloc returns a block.
Hash_Iterator(ok) ==
    /\ kind = "hash" /\ alive
    /\ iter.status \in { "none", "failed", "released" } /\ iter.n < MaxIters
    /\ IF ok
       THEN LET r == table_hash_iterator(1, tables)
            IN  /\ heap' = Append(heap, r.ih)
                /\ swt_iter' = [private |-> Len(heap) + 1, flow |-> r.flow]
                /\ iter' = [status |-> "live", dirty |-> FALSE,
                            n |-> iter.n + 1,
                            yielded |-> IF r.flow # NULL THEN << r.flow >>
                                        ELSE << >>]
       ELSE /\ heap' = heap
            /\ swt_iter' = [swt_iter EXCEPT !.private = 0]
            /\ iter' = [status |-> "failed", dirty |-> FALSE, n |-> iter.n + 1,
                        yielded |-> << >>]
    /\ last' = [Call("iterator") EXCEPT !.ret = IF ok THEN 1 ELSE 0]
    /\ UNCHANGED tabvars

Hash_Next ==
    /\ kind = "hash" /\ alive /\ iter.status = "live"
    /\ LET r == table_hash_next(heap[swt_iter.private], swt_iter.flow, tables)
       IN  /\ heap' = [heap EXCEPT ![swt_iter.private] = r.ih]
           /\ swt_iter' = [swt_iter EXCEPT !.flow = r.flow]
           /\ iter' = [iter EXCEPT !.yielded =
                          IF swt_iter.flow # NULL /\ r.flow # NULL
                             /\ ~iter.dirty
                          THEN Append(@, r.flow) ELSE @]
    /\ last' = Call("next")
    /\ UNCHANGED tabvars

\* A table_hash_iterator_destroy that also frees the entry the iterator
\* exposes.
Hash_IteratorDestroy_freeflow ==
    /\ kind = "hash" /\ iter.status = "live"
    /\ heap' = [heap EXCEPT ![swt_iter.private].freed = @ + 1]
    /\ iter' = [iter EXCEPT !.status = "released", !.yielded = << >>,
                             !.dirty = FALSE]
    /\ last' = Call("iterator_destroy")
    /\ nfree' = IF swt_iter.flow # NULL
                THEN [nfree EXCEPT ![swt_iter.flow.id] = @ + 1] ELSE nfree
    /\ UNCHANGED << kind, alive, tables, n_alloc, accepted, owned, ctor,
                    interleave, swt_iter >>

\* table_hash_iterator_destroy(swt_iter): free(swt_iter->private)
Hash_IteratorDestroy ==
    /\ kind = "hash" /\ iter.status = "live"
    /\ heap' = [heap EXCEPT ![swt_iter.private].freed = @ + 1]
    /\ iter' = [iter EXCEPT !.status = "released", !.yielded = << >>,
                             !.dirty = FALSE]
    /\ last' = Call("iterator_destroy")
    /\ UNCHANGED << tabvars, swt_iter >>

\* m: whether each malloc of table_hash2_iterator returns a block.
Hash2_Iterator(m) ==
    /\ kind = "hash2" /\ alive
    /\ iter.status \in { "none", "failed", "released" } /\ iter.n < MaxIters
    /\ LET r == table_hash2_iterator(swt_iter, heap, tables, m)
       IN  /\ heap' = r.heap
           /\ swt_iter' = r.swt_iter
           /\ iter' = [status |-> IF r.retval # 0 THEN "live" ELSE "failed",
                       dirty |-> FALSE, n |-> iter.n + 1,
                       yielded |-> IF r.retval # 0 /\ r.swt_iter.flow # NULL
                                   THEN << r.swt_iter.flow >> ELSE << >>]
           /\ last' = [Call("iterator") EXCEPT !.ret = r.retval]
    /\ UNCHANGED tabvars

\* ok matters only when the iterator of subtable[1] has to be made.
Hash2_Next(ok) ==
    /\ kind = "hash2" /\ alive /\ iter.status = "live"
    /\ LET r == table_hash2_next(swt_iter, heap, tables, ok)
       IN  /\ ~ok => r # table_hash2_next(swt_iter, heap, tables, TRUE)
           /\ heap' = r.heap
           /\ swt_iter' = r.swt_iter
           /\ iter' = [iter EXCEPT !.yielded =
                          IF swt_iter.flow # NULL /\ r.swt_iter.flow # NULL
                             /\ ~iter.dirty
                          THEN Append(@, r.swt_iter.flow) ELSE @]
           /\ last' = [Call("next") EXCEPT !.ret = IF ok THEN 1 ELSE 0]
    /\ UNCHANGED tabvars

\* table_hash2_iterator_destroy(swt_iter), on a live iterator or after
\* table_hash2_iterator has returned 0.  In the second case the behaviour
\* is undefined: swt_iter->private is NULL and is dereferenced, or it
\* points to the ih2 that table_hash2_iterator has already freed, whose
\* ih.private is read (wild: it no longer reads as NULL and goes to free)
\* and which is then freed again.  The program is followed no further.
Hash2_IteratorDestroy(wild) ==
    /\ kind = "hash2" /\ iter.status \in { "live", "failed" }
    /\ IF iter.status = "live"
       THEN /\ ~wild
            /\ heap' = table_hash2_iterator_destroy(swt_iter, heap)
            /\ iter' = [iter EXCEPT !.status = "released",
                                    !.yielded = << >>, !.dirty = FALSE]
            /\ last' = Call("iterator_destroy")
            /\ alive' = alive
       ELSE /\ wild => swt_iter.private # 0
            /\ heap' = IF swt_iter.private = 0 THEN heap
                       ELSE FreeBlock(heap, swt_iter.private)
            /\ iter' = [iter EXCEPT !.status = "undefined"]
            /\ last' = [Call("iterator_destroy") EXCEPT
                            !.branch = IF swt_iter.private = 0
                                       THEN "null dereference"
                                       ELSE IF wild THEN "wild free"
                                       ELSE "double free"]
            /\ alive' = FALSE
    /\ UNCHANGED << kind, tables, n_alloc, nfree, accepted, owned, ctor,
                    interleave, swt_iter >>

\* swt->stats(swt, &stats)
Hash_Stats ==
    /\ kind = "hash" /\ alive
    /\ last' = [Call("stats") EXCEPT
                    !.ret = table_hash_stats(tables[1]).n_flows]
    /\ UNCHANGED << tabvars, itervars, iter >>

Hash2_Stats ==
    /\ kind = "hash2" /\ alive
    /\ last' = [Call("stats") EXCEPT
                    !.ret = table_hash2_stats(tables).n_flows]
    /\ UNCHANGED << tabvars, itervars, iter >>

Next ==
    \/ \E k \in ProbeKeys : Hash_Insert(k)
    \/ \E k \in ProbeKeys : Hash2_Insert(k)
    \/ \E k \in ProbeKeys : Hash_Lookup(k)
    \/ \E k \in ProbeKeys : Hash2_Lookup(k)
    \/ \E d \in DeleteArgs : Hash_Delete(d[1], d[2])
    \/ \E d \in DeleteArgs, first \in 1..2 : Hash2_Delete(d[1], d[2], first)
    \/ \E E \in SUBSET StoredAll : Hash_Timeout(E)
    \/ \E E \in SUBSET StoredAll, first \in 1..2 : Hash2_Timeout(E, first)
    \/ Hash_Destroy
    \/ Hash2_Destroy
    \/ \E ok \in BOOLEAN : Hash_Iterator(ok)
    \/ Hash_Next
    \/ Hash_IteratorDestroy
    \/ \E m \in [1..3 -> BOOLEAN] : Hash2_Iterator(m)
    \/ \E ok \in BOOLEAN : Hash2_Next(ok)
    \/ \E wild \in BOOLEAN : Hash2_IteratorDestroy(wild)
    \/ Hash_Stats
    \/ Hash2_Stats

Spec == Init /\ [][Next]_vars

\* A caller that changes the table while its iterator is live.
NextInterleaved ==
    \/ \E k \in ProbeKeys : Hash_Insert(k)
    \/ \E k \in ProbeKeys : Hash2_Insert(k)
    \/ \E d \in DeleteArgs : Hash_Delete(d[1], d[2])
    \/ \E d \in DeleteArgs, first \in 1..2 : Hash2_Delete(d[1], d[2], first)
    \/ \E E \in SUBSET StoredAll : Hash_Timeout(E)
    \/ \E E \in SUBSET StoredAll, first \in 1..2 : Hash2_Timeout(E, first)
    \/ \E ok \in BOOLEAN : Hash_Iterator(ok)
    \/ Hash_Next
    \/ Hash_IteratorDestroy
    \/ \E m \in [1..3 -> BOOLEAN] : Hash2_Iterator(m)
    \/ \E ok \in BOOLEAN : Hash2_Next(ok)
    \/ \E wild \in BOOLEAN : Hash2_IteratorDestroy(wild)

InitInterleaved == InitTable /\ interleave = TRUE

SpecInterleaved == InitInterleaved /\ [][NextInterleaved]_vars

\* The same caller with a single-hash table.
NextInterleavedHash ==
    \/ \E k \in ProbeKeys : Hash_Insert(k)
    \/ \E d \in DeleteArgs : Hash_Delete(d[1], d[2])
    \/ \E E \in SUBSET StoredAll : Hash_Timeout(E)
    \/ \E ok \in BOOLEAN : Hash_Iterator(ok)
    \/ Hash_Next
    \/ Hash_IteratorDestroy

InitInterleavedHash == InitTable /\ kind = "hash" /\ interleave = TRUE

SpecInterleavedHash == InitInterleavedHash /\ [][NextInterleavedHash]_vars

\* ------------------------------------------------------- the constructors
\* Before the constructor call: there is no table.
InitCreate ==
    /\ kind = "none" /\ alive = FALSE /\ tables = << >>
    /\ ctor = [op |-> "none", args |-> << >>, result |-> "none",
               blocks |-> << >>]
    /\ interleave = FALSE
    /\ InitCaller

CreateSizes == 0..MaxCreateBuckets

\* The caller calls table_hash_create(POLY0, n_buckets).
Create_Single(n_buckets, m) ==
    /\ ctor.op = "none"
    /\ LET c == table_hash_create(POLY0, n_buckets, m, 1)
       IN  /\ ctor' = Ctor("table_hash_create", << n_buckets >>, c)
           /\ tables' = c.tables
           /\ alive' = (c.result = "table")
           /\ kind' = IF c.result = "table" THEN "hash" ELSE kind
    /\ UNCHANGED << n_alloc, nfree, last, accepted, owned, heap, swt_iter,
                    interleave, iter >>

\* The caller calls table_hash2_create(POLY0, buckets0, POLY1, buckets1).
Create_Double(buckets0, buckets1, m) ==
    /\ ctor.op = "none"
    /\ LET c == table_hash2_create(POLY0, buckets0, POLY1, buckets1, m)
       IN  /\ ctor' = Ctor("table_hash2_create", << buckets0, buckets1 >>, c)
           /\ tables' = c.tables
           /\ alive' = (c.result = "table")
           /\ kind' = IF c.result = "table" THEN "hash2" ELSE kind
    /\ UNCHANGED << n_alloc, nfree, last, accepted, owned, heap, swt_iter,
                    interleave, iter >>

NextCreate ==
    \/ \E n \in CreateSizes, m \in Mallocs : Create_Single(n, m)
    \/ \E n0, n1 \in CreateSizes, t2 \in BOOLEAN, m0, m1 \in Mallocs :
           Create_Double(n0, n1, [t2 |-> t2, sub |-> << m0, m1 >>])

SpecCreate == InitCreate /\ [][NextCreate]_vars

\* ===================================================================
\* Properties
\* ===================================================================
Occupied(th) == { i \in DOMAIN th.buckets : th.buckets[i] # NULL }

\* What stats() reports as n_flows for the whole table.
ReportedNFlows ==
    IF kind = "hash" THEN table_hash_stats(tables[1]).n_flows
    ELSE table_hash_stats(tables[1]).n_flows
             + table_hash_stats(tables[2]).n_flows

\* swt->lookup(key) in the current state.
Lookup(key) ==
    IF kind = "hash" THEN table_hash_lookup(tables[1], key)
    ELSE table_hash2_lookup(tables, key)

\* What the state of a single table makes of insert(key): the bucket is
\* empty, holds the identical key, or the insert is turned away.
Outcome(th, key) ==
    IF key.wildcards # 0 THEN "rejected"
    ELSE LET old == th.buckets[find_bucket(th, key)]
         IN  IF old = NULL THEN "new"
             ELSE IF old.key = key THEN "replace" ELSE "rejected"

\* ------------------------------------------------------------------- C1
\* C1: in a single-hash table, from creation on and after any sequence of
\* insert, delete and timeout calls, n_flows (what stats reports) equals
\* the number of occupied buckets.
C1_NFlowsCountsOccupied ==
    (kind = "hash" /\ alive) =>
        table_hash_stats(tables[1]).n_flows = Cardinality(Occupied(tables[1]))

\* ------------------------------------------------------------------- C2
\* C2: in a double-hash table driven only through insert, delete and
\* timeout, no key is stored in subtable 0 and in subtable 1 at once.
C2_NoKeyInBothSubtables ==
    (kind = "hash2" /\ alive) =>
        { f.key : f \in Stored(tables[1]) }
            \cap { f.key : f \in Stored(tables[2]) } = {}

\* ------------------------------------------------------------------- C3
\* The entry that stands in the way of insert(key) in a single table.
Foreign(th, key) ==
    LET old == th.buckets[find_bucket(th, key)]
    IN  IF old # NULL /\ old.key # key THEN old ELSE NULL

\* C3: a single-hash insert never evicts.  When the bucket of the new key
\* k2 holds an entry with another key k1, insert(k2) is rejected, the
\* bucket keeps the k1 entry, lookup(k1) is what it was, lookup(k2) finds
\* nothing, n_flows is unchanged and the k1 entry is not freed.
C3_InsertNeverEvicts ==
    [][ (kind = "hash" /\ last'.op = "insert"
            /\ Foreign(tables[1], last'.key) # NULL) =>
          LET k2 == last'.key
              b == find_bucket(tables[1], k2)
              e1 == Foreign(tables[1], k2)
          IN  /\ last'.ret = 0
              /\ tables'[1].buckets[b] = e1
              /\ table_hash_lookup(tables[1], e1.key) = e1
              /\ table_hash_lookup(tables'[1], e1.key) = e1
              /\ table_hash_lookup(tables'[1], k2) = NULL
              /\ tables'[1].n_flows = tables[1].n_flows
              /\ nfree' = nfree /\ nfree[e1.id] = 0
      ]_vars

\* insert(k2) has just been turned away by an entry with another key.
C3_Witness ==
    /\ kind = "hash" /\ last.op = "insert" /\ last.key.wildcards = 0
    /\ last.ret = 0 /\ Foreign(tables[1], last.key) # NULL

\* ------------------------------------------------------------------- C4
\* What insert(key) on the whole table meets, and what it would return.
OutcomeOfInsert(key) ==
    IF kind = "hash" THEN Outcome(tables[1], key)
    ELSE IF Outcome(tables[1], key) # "rejected"
         THEN Outcome(tables[1], key) ELSE Outcome(tables[2], key)
ReturnOfInsert(key) ==
    IF kind = "hash"
    THEN table_hash_insert(tables[1], NewFlow(n_alloc + 1, key), 1).retval
    ELSE table_hash2_insert(tables, NewFlow(n_alloc + 1, key)).retval

NotCollide(k1, k2) ==
    \/ find_bucket(tables[1], k1) # find_bucket(tables[1], k2)
    \/ find_bucket(tables[2], k1) # find_bucket(tables[2], k2)

\* A step that is one of the two inserts of the claim, for keys of K:
\* insert(k1) into the empty table, where another key of K does not
\* collide with k1 in some subtable, or insert(k2) right after it.  The
\* insert succeeds and each key inserted so far is found with its entry.
TwoInserts(K) ==
    (kind = "hash2" /\ last'.op = "insert" /\ last'.key \in K) =>
        /\ (/\ StoredAll = {}
            /\ \E k2 \in K : k2 # last'.key /\ NotCollide(last'.key, k2)) =>
               /\ last'.ret = 1
               /\ table_hash2_lookup(tables', last'.key) = last'.flow
        /\ (/\ last.op = "insert" /\ last.key \in K
            /\ last.ret = 1 /\ last.events = << >>
            /\ StoredAll = { last.flow }
            /\ last'.key # last.key /\ NotCollide(last.key, last'.key)) =>
               /\ last'.ret = 1
               /\ table_hash2_lookup(tables', last.key) = last.flow
               /\ table_hash2_lookup(tables', last'.key) = last'.flow

\* C6 as stated: for any keys k1 # k2 that do not collide in at least one
\* subtable, inserting k1 then k2 into the empty double table makes both
\* inserts succeed and both lookups return their own entry.
C6_AnyTwoKeys == [][TwoInserts(ProbeKeys)]_vars

\* C6 (amended): the same for non-wildcarded keys k1 # k2.
C6_TwoExactKeys == [][TwoInserts(ExactKeys)]_vars

\* Two keys that collide in subtable 0 only were inserted into the empty
\* table: the first sits in subtable 0, the second in subtable 1.
C6_Witness ==
    /\ kind = "hash2" /\ alive /\ n_alloc = 2
    /\ last.op = "insert" /\ last.ret = 1
    /\ Cardinality(Stored(tables[1])) = 1
    /\ Stored(tables[2]) = { last.flow }

\* ------------------------------------------------------------------- C7
\* C7: in both flavours a delete with an exact key removes at most one
\* entry, returns the number of entries it removed, and n_flows goes down
\* by that number (in unsigned arithmetic).
C7_ExactDeleteRemovesAtMostOne ==
    [][ (last'.op = "delete" /\ last'.key.wildcards = 0) =>
          LET removed == StoredAll \ StoredAll'
          IN  /\ Cardinality(removed) <= 1
              /\ last'.ret = Cardinality(removed)
              /\ ReportedNFlows' = ReportedNFlows - last'.ret
      ]_vars

\* ------------------------------------------------------------------- C8
EventsOf(events, ev, f) ==
    { i \in DOMAIN events : events[i].ev = ev /\ events[i].flow = f }

\* C8: timeout removes the entries that are expired when it is called and
\* no others, reports each removed entry to the notifier exactly once and
\* before freeing it, leaves every other entry in its bucket, returns the
\* number removed and lowers n_flows by it (in unsigned arithmetic), a
\* double table summing over its two subtables.
C8_TimeoutRemovesExpired ==
    [][ last'.op = "timeout" =>
          LET E == last'.expired
              ev == last'.events
          IN  /\ \A t \in DOMAIN tables : \A i \in DOMAIN tables[t].buckets :
                     tables'[t].buckets[i] =
                         IF tables[t].buckets[i] \in E THEN NULL
                         ELSE tables[t].buckets[i]
              /\ \A f \in E :
                     /\ Cardinality(EventsOf(ev, "notify", f)) = 1
                     /\ Cardinality(EventsOf(ev, "free", f)) = 1
                     /\ \A i \in EventsOf(ev, "notify", f),
                           j \in EventsOf(ev, "free", f) : i < j
              /\ \A i \in DOMAIN ev : ev[i].flow \in E
              /\ \A id \in FlowIds :
                     nfree'[id] = nfree[id]
                         + (IF \E f \in E : f.id = id THEN 1 ELSE 0)
              /\ last'.ret = Cardinality(E)
              /\ ReportedNFlows' = ReportedNFlows - Cardinality(E)
              /\ \A t \in DOMAIN tables :
                     tables'[t].n_flows = tables[t].n_flows
                         - Cardinality(E \cap Stored(tables[t]))
      ]_vars

\* A timeout of a double table has removed an entry from each subtable
\* and left a third entry where it was.
C8_Witness ==
    /\ kind = "hash2" /\ last.op = "timeout" /\ last.ret = 2
    /\ \E i, j \in DOMAIN last.events :
           last.events[i].tab = 1 /\ last.events[j].tab = 2
    /\ StoredAll # {}

\* ------------------------------------------------------------------- C9
\* C9: a delete with a wildcarded key on a single-hash table removes the
\* stored entries whose key satisfies flow_del_matches(key, strict) and no
\* others, returns their number, and leaves n_flows equal to the number of
\* occupied buckets.
C9_WildcardDeleteRemovesMatches ==
    [][ (kind = "hash" /\ last'.op = "delete" /\ last'.key.wildcards # 0) =>
          LET th == tables[1]
              M == { f \in Stored(th) :
                       flow_del_matches(f.key, last'.key, last'.strict) }
          IN  /\ tables'[1].buckets =
                     [i \in DOMAIN th.buckets |->
                         IF th.buckets[i] \in M THEN NULL ELSE th.buckets[i]]
              /\ last'.ret = Cardinality(M)
              /\ \A f \in M : Cardinality(EventsOf(last'.events, "free", f)) = 1
              /\ Len(last'.events) = Cardinality(M)
              /\ tables'[1].n_flows = Cardinality(Occupied(tables'[1]))
      ]_vars

\* ------------------------------------------------------------------ C10
\* The entries of a table from bucket i on, in bucket order.
RECURSIVE EntriesFrom(_, _)
EntriesFrom(th, i) ==
    IF i > th.bucket_mask THEN << >>
    ELSE (IF th.buckets[i] # NULL THEN << th.buckets[i] >> ELSE << >>)
             \o EntriesFrom(th, i + 1)

\* C10: while the table is not changed, what an iterator over a
\* single-hash table has exposed is a prefix of the occupied entries in
\* increasing bucket order, ending with the entry it exposes now; when it
\* exposes the end (NULL) it has exposed all of them, each once; on an
\* empty table it exposes the end from its creation on.
C10_IterationInBucketOrder ==
    (kind = "hash" /\ alive /\ iter.status = "live" /\ ~iter.dirty) =>
        LET occ == EntriesFrom(tables[1], 0)
            y == iter.yielded
        IN  /\ Len(y) <= Len(occ) /\ y = SubSeq(occ, 1, Len(y))
            /\ swt_iter.flow = NULL => y = occ
            /\ swt_iter.flow # NULL => (y # << >> /\ y[Len(y)] = swt_iter.flow)
            /\ occ = << >> => swt_iter.flow = NULL

\* An iterator has walked a table with two entries to the end.
C10_Witness ==
    /\ kind = "hash" /\ alive /\ iter.status = "live" /\ ~iter.dirty
    /\ swt_iter.flow = NULL /\ Len(iter.yielded) = 2

\* ------------------------------------------------------------------ C11
\* C11: while the table is not changed, what an iterator over a
\* double-hash table has exposed is a prefix of the entries of subtable 0
\* in bucket order followed by those of subtable 1 in bucket order, ending
\* with the entry it exposes now, whichever subtables are empty; when it
\* exposes the end (NULL) it has exposed all of them, each once.
C11_Iteration2InSubtableOrder ==
    (kind = "hash2" /\ alive /\ iter.status = "live" /\ ~iter.dirty) =>
        LET occ == EntriesFrom(tables[1], 0) \o EntriesFrom(tables[2], 0)
            y == iter.yielded
        IN  /\ Len(y) <= Len(occ) /\ y = SubSeq(occ, 1, Len(y))
            /\ swt_iter.flow = NULL => y = occ
            /\ swt_iter.flow # NULL => (y # << >> /\ y[Len(y)] = swt_iter.flow)

\* ------------------------------------------------------------------ C12
\* C12: a flow is freed by the table at most once, and only when an insert
\* has accepted it; while the table lives, an accepted flow is freed if and
\* only if it is no longer stored (it was replaced, deleted or expired);
\* destroy frees each of the K entries stored, once, and nothing else, so
\* that after it every accepted flow has been freed exactly once and no
\* rejected flow has.
C12_FreedExactlyOnce ==
    /\ \A id \in FlowIds :
           /\ nfree[id] <= 1
           /\ id \notin owned => nfree[id] = 0
           /\ (id \in owned /\ alive) =>
                  (nfree[id] = 1 <=> ~(\E f \in StoredAll : f.id = id))
    /\ last.op = "destroy" =>
           /\ Len(last.events) = Cardinality(StoredAll)
           /\ \A f \in StoredAll :
                  Cardinality(EventsOf(last.events, "free", f)) = 1
           /\ \A id \in owned : nfree[id] = 1

\* destroy has freed the one entry left in a table that saw three inserts:
\* one was rejected, one replaced the first.
C12_Witness ==
    /\ last.op = "destroy" /\ n_alloc = 3 /\ Cardinality(owned) = 2
    /\ Len(last.events) = 1 /\ \A id \in owned : nfree[id] = 1

\* ------------------------------------------------------------------ C13
\* 1, 2, 4, 8, ...: the powers of two an unsigned int can hold (2^31 is
\* beyond the sizes the constructors are called with here).
IsPowerOfTwo(n) == \E e \in 0..30 : n = Pow2(e)

\* C13: table_hash_create returns no table for a bucket count that is not
\* a power of two, 0 included, and for a power of two the table it returns
\* has bucket_mask = n_buckets - 1.
C13_CreateRejectsNonPowerOfTwo ==
    ctor.op = "table_hash_create" =>
        /\ ~IsPowerOfTwo(ctor.args[1]) => ctor.result # "table"
        /\ (IsPowerOfTwo(ctor.args[1]) /\ ctor.result = "table") =>
               tables[1].bucket_mask = ctor.args[1] - 1

\* ------------------------------------------------------------------ C16
\* C16: when table_hash2_create fails because an allocation fails (of the
\* sw_table_hash2, of subtable 0 or of subtable 1), it returns NULL and
\* every block it had allocated has been freed exactly once; when it
\* returns the table nothing is freed.
C16_CreateDoubleNeverLeaks ==
    ctor.op = "table_hash2_create" =>
        /\ ctor.result = "null" =>
               /\ \A i \in DOMAIN ctor.blocks : ctor.blocks[i].freed = 1
               /\ tables = << >> /\ ~alive
        /\ ctor.result = "table" =>
               /\ Len(ctor.blocks) = 5 /\ Len(tables) = 2
               /\ \A i \in DOMAIN ctor.blocks : ctor.blocks[i].freed = 0

\* table_hash2_create has failed on subtable 1's bucket array, after it had
\* the sw_table_hash2, all of subtable 0 and subtable 1's structure.
C16_Witness ==
    /\ ctor.op = "table_hash2_create" /\ ctor.result = "null"
    /\ Len(ctor.blocks) = 4
    /\ \A i \in DOMAIN ctor.blocks : ctor.blocks[i].freed = 1

\* ------------------------------------------------------------------ C18
\* C18: a double-hash insert tries subtable 0 first and touches subtable 1
\* only when subtable 0 has rejected the entry; when both reject (the key
\* is wildcarded, or both buckets hold another key) it returns 0, buckets
\* and n_flows of both subtables are unchanged, and no flow is freed: not
\* the new one, not a stored one.
C18_Insert2TriesSubtable0First ==
    [][ (kind = "hash2" /\ last'.op = "insert") =>
          LET k == last'.key
              o0 == Outcome(tables[1], k)
              o1 == Outcome(tables[2], k)
          IN  /\ o0 # "rejected" =>
                     /\ last'.ret = 1 /\ tables'[2] = tables[2]
                     /\ tables'[1].buckets[find_bucket(tables[1], k)]
                            = last'.flow
                     /\ Len(last'.tried) = 1
              /\ (Len(last'.tried) = 2 \/ tables'[2] # tables[2]) =>
                     (o0 = "rejected" /\ tables'[1] = tables[1])
              /\ (o0 = "rejected" /\ o1 # "rejected") =>
                     /\ last'.ret = 1
                     /\ tables'[2].buckets[find_bucket(tables[2], k)]
                            = last'.flow
              /\ (o0 = "rejected" /\ o1 = "rejected") =>
                     /\ last'.ret = 0 /\ tables' = tables
                     /\ nfree' = nfree /\ last'.events = << >>
                     /\ nfree[last'.flow.id] = 0
      ]_vars

\* Both subtables have just turned an exact key away: each holds another
\* key in the bucket of the new one.
C18_Witness ==
    /\ kind = "hash2" /\ last.op = "insert" /\ last.ret = 0
    /\ last.key.wildcards = 0 /\ Len(last.tried) = 2
    /\ Foreign(tables[1], last.key) # NULL
    /\ Foreign(tables[2], last.key) # NULL

\* ------------------------------------------------------------------ C14
\* C14: when timeout or delete calls come between the calls on a live
\* iterator, of either flavour, the entry the iterator exposes is never an
\* entry the table has already freed: a timeout or delete leaves the
\* iterator exposing an entry that is not freed.
C14_CursorSafeUnderTimeout ==
    [][ (/\ iter.status = "live" /\ last'.op \in { "timeout", "delete" }
         /\ swt_iter.flow # NULL /\ nfree[swt_iter.flow.id] = 0) =>
          (swt_iter'.flow # NULL => nfree'[swt_iter'.flow.id] = 0)
      ]_vars

\* ------------------------------------------------------------------ C15
\* C15: over create, advance and release of a double-hash iterator, with
\* any of the allocations failing and with release called after a create
\* that failed, no block (the swt_iterator_hash2, the iterators of the two
\* subtables) is freed twice, and once create has failed or release has
\* run every block allocated has been freed exactly once.
C15_Cursor2BlocksFreedOnce ==
    kind = "hash2" =>
        \A p \in DOMAIN heap :
            /\ heap[p].freed <= 1
            /\ iter.status \in { "failed", "released", "undefined" } =>
                   heap[p].freed = 1

\* ------------------------------------------------------------------ C17
\* The swt_iterator_hash2 of the caller's iterator, the state of the
\* double-hash iterator, and the iterators of subtables allocated and not
\* freed.
Ih2(hp, si) == hp[si.private]
CursorState(hp, si) ==
    IF si.flow = NULL THEN "Done"
    ELSE IF Ih2(hp, si).table_i = 0 THEN "OnTable0" ELSE "OnTable1"
Rank(state) == CASE state = "OnTable0" -> 0
                 [] state = "OnTable1" -> 1
                 [] state = "Done" -> 2
LiveInner(hp) ==
    { p \in DOMAIN hp : "bucket_i" \in DOMAIN hp[p] /\ hp[p].freed = 0 }

\* In OnTable0 and OnTable1 the iterator holds exactly one live iterator
\* of a subtable, over that subtable, and exposes the entry it stands on.
OnTable(hp, si, tabs) ==
    LET ih2 == Ih2(hp, si)
        p == ih2.ih.private
    IN  /\ LiveInner(hp) = { p }
        /\ hp[p].th = ih2.table_i + 1
        /\ hp[p].bucket_i <= tabs[hp[p].th].bucket_mask
        /\ si.flow = ih2.ih.flow
        /\ si.flow = tabs[hp[p].th].buckets[hp[p].bucket_i]

\* A step of a live double-hash iterator does not move it backwards, and
\* leaves it in a state where InDone(heap, swt_iter) tells what Done is.
CursorMachine(InDone(_, _, _)) ==
    (kind = "hash2" /\ iter'.status = "live") =>
        /\ IF CursorState(heap', swt_iter') = "Done"
           THEN InDone(heap', swt_iter', tables')
           ELSE OnTable(heap', swt_iter', tables')
        /\ iter.status = "live" =>
               Rank(CursorState(heap', swt_iter'))
                   >= Rank(CursorState(heap, swt_iter))

\* Done as the claim has it: no entry exposed, no live iterator of a
\* subtable held.
DoneReleased(hp, si, tabs) == si.flow = NULL /\ LiveInner(hp) = {}

\* Done as the code has it: no entry exposed, subtable 1 reached, and the
\* iterator of subtable 1, if its allocation did not fail, still held, at
\* its end.
DoneHolding(hp, si, tabs) ==
    LET ih2 == Ih2(hp, si)
        p == ih2.ih.private
    IN  /\ si.flow = NULL /\ ih2.table_i = 1
        /\ IF p = 0 THEN LiveInner(hp) = {}
           ELSE /\ LiveInner(hp) = { p } /\ hp[p].th = 2
                /\ hp[p].bucket_i = tabs[2].bucket_mask + 1

\* C17 as stated: the double-hash iterator goes OnTable0 -> OnTable1 ->
\* Done and never backwards; in OnTable0 and OnTable1 it holds exactly one
\* live iterator, over that subtable, and exposes its entry; reaching Done
\* releases the iterator of subtable 1, so that in Done no entry is
\* exposed, no iterator of a subtable is live, and advance stays in Done.
C17_CursorStateMachine == [][CursorMachine(DoneReleased)]_vars

\* C17 (amended): the same, but reaching Done does not release the
\* iterator of subtable 1: in Done the iterator still holds it, at its end
\* (or holds none, when its allocation failed), and release frees it:
\* after release every block of the iterator has been freed once.
C17_CursorKeepsInnerUntilRelease ==
    [][ /\ CursorMachine(DoneHolding)
        /\ (kind = "hash2" /\ iter.status = "live"
                /\ iter'.status = "released") =>
               \A p \in DOMAIN heap' : heap'[p].freed = 1
      ]_vars

\* An iterator that went through both subtables has been released in
\* Done.
C17_Witness ==
    /\ kind = "hash2" /\ iter.status = "released" /\ swt_iter.flow = NULL
    /\ last.op = "iterator_destroy" /\ Len(heap) = 3
    /\ Stored(tables[1]) # {} /\ Stored(tables[2]) # {}

C20_CursorTerminates ==
    [][ (kind = "hash" /\ iter'.status = "live") =>
          LET ih == heap[swt_iter.private]
              ihn == heap'[swt_iter'.private]
              mask == tables'[1].bucket_mask
          IN  /\ ihn.bucket_i <= mask + 1
              /\ swt_iter'.flow # NULL => ihn.bucket_i <= mask
              /\ iter.status = "live" =>
                     /\ ihn.bucket_i >= ih.bucket_i
                     /\ (last'.op = "next" /\ swt_iter.flow # NULL) =>
                            ihn.bucket_i > ih.bucket_i
                     /\ last'.op # "next" =>
                            (ihn = ih /\ swt_iter' = swt_iter)
                     /\ swt_iter.flow = NULL => swt_iter'.flow = NULL
      ]_vars

\* The iterator has reached the end of a table that was changed under it
\* and still holds an entry.
C20_Witness ==
    /\ kind = "hash" /\ iter.status = "live" /\ iter.dirty
    /\ last.op = "next" /\ swt_iter.flow = NULL
    /\ heap[swt_iter.private].bucket_i = tables[1].bucket_mask + 1
    /\ StoredAll # {}

====
